---------------------------- MODULE Spec2Model ----------------------------
(***************************************************************************)
(* Retirement Monte Carlo simulation (simulations/simulation_mc_rf.py).    *)
(*                                                                         *)
(* Arithmetic.  The program computes in binary floating point.  Here money *)
(* is a whole number of currency units and every rate (growth, COLA,       *)
(* inflation, tax, asset return) is a whole number of percent, so 0.15 in  *)
(* the program is 15 here.  A product of an amount and a rate is rounded   *)
(* down to a whole unit, once per multiplication.  stock_percentage and    *)
(* bond_percentage are percentages in the program as well (it divides them *)
(* by 100 itself).                                                         *)
(*                                                                         *)
(* Randomness.  Every numpy/scipy draw is a nondeterministic choice from a *)
(* small set that depends on the configured mean and standard deviation,   *)
(* so a zero standard deviation gives the mean itself.                     *)
(***************************************************************************)
EXTENDS Integers, Sequences, FiniteSets, TLC

\* ------------------------------------------------------------------------
\* Bounds of the explored configurations
\* ------------------------------------------------------------------------
\* largest horizon (years_in_simulation) a configuration may have
MaxYears == 3
\* largest number of trajectories (config.simulations)
MaxSims == 2
\* largest number of year-steps of a batch, simulations x horizon
MaxSteps == 4

\* ------------------------------------------------------------------------
\* Fixed-point helpers
\* ------------------------------------------------------------------------
Min(a, b) == IF a <= b THEN a ELSE b

Max(a, b) == IF a >= b THEN a ELSE b

\* amount * rate, rate in percent
Pct(amount, rate) == (amount * rate) \div 100

\* amount * (1 + rate) ** n
RECURSIVE Grow(_, _, _)
Grow(amount, rate, n) ==
    IF n <= 0 THEN amount
    ELSE (Grow(amount, rate, n - 1) * (100 + rate)) \div 100

\* sum of f[i] over the finite set S of indices
RECURSIVE SumOver(_, _)
SumOver(f, S) ==
    IF S = {} THEN 0
    ELSE LET i == CHOOSE j \in S : TRUE IN f[i] + SumOver(f, S \ {i})

\* ------------------------------------------------------------------------
\* Program constants
\* ------------------------------------------------------------------------
\* CASH_ACCOUNT_RETURN_RATE = 0.015, in tenths of a percent
CASH_ACCOUNT_RETURN_RATE == 15

\* the value a negative rolling balance is reset to at the start of a year
DepletionFloor == -1

\* Medicare age in calculate_healthcare_costs
MedicareAge == 65

\* catchup_age_401k of tax_master_data (imported as cathup_age_401k)
cathup_age_401k == 50

\* datetime.now().year
current_year == 2026

\* contribution_limits["401k"] and contribution_limits["catch_up"]
contribution_limits_401k ==
    [y \in 2021..2025 |->
        CASE y = 2025 -> 23500 [] y = 2024 -> 23000 [] y = 2023 -> 22500
          [] y = 2022 -> 20000 [] y = 2021 -> 19500]

contribution_limits_catch_up ==
    [y \in 2021..2025 |->
        CASE y = 2025 -> 7500 [] y = 2024 -> 7500 [] y = 2023 -> 7500
          [] y = 2022 -> 6500 [] y = 2021 -> 6500]

\* historical_equity_returns / historical_bond_returns, in percent, by year
historical_equity_returns ==
    [y \in 2007..2009 |-> CASE y = 2007 -> 5 [] y = 2008 -> -40 [] y = 2009 -> 30]

historical_bond_returns ==
    [y \in 2007..2009 |-> CASE y = 2007 -> 10 [] y = 2008 -> 20 [] y = 2009 -> -10]

SetMin(S) == CHOOSE x \in S : \A y \in S : x <= y

SetMax(S) == CHOOSE x \in S : \A y \in S : x >= y

Range(f) == {f[x] : x \in DOMAIN f}

equity_return_min == SetMin(Range(historical_equity_returns))

equity_return_max == SetMax(Range(historical_equity_returns))

bond_return_min == SetMin(Range(historical_bond_returns))

bond_return_max == SetMax(Range(historical_bond_returns))

\* ------------------------------------------------------------------------
\* Income
\* ------------------------------------------------------------------------
\* mutant: earnings are paid in the retirement year as well
calculate_earnings_through_retirement_year(starting_earnings, yearly_increment, year, retirement_age, current_age) ==
    IF current_age <= retirement_age
    THEN Grow(starting_earnings, yearly_increment, year)
    ELSE 0

calculate_earnings(starting_earnings, yearly_increment, year, retirement_age, current_age) ==
    IF current_age < retirement_age
    THEN Grow(starting_earnings, yearly_increment, year)
    ELSE 0

calculate_pension(annual_pension, pension_yearly_increase, year, retirement_age, current_age) ==
    IF current_age >= retirement_age
    THEN Grow(annual_pension, pension_yearly_increase, current_age - retirement_age)
    ELSE 0

calculate_social_security(annual_ss, cola_rate, withdrawal_start_age, current_age) ==
    IF current_age >= withdrawal_start_age
    THEN Grow(annual_ss, cola_rate, current_age - withdrawal_start_age)
    ELSE 0

IncomeTotal(income) ==
    income.self_earnings + income.partner_earnings
    + income.self_social_security + income.partner_social_security
    + income.self_pension + income.partner_pension + income.rental

calculate_yearly_income(config, self_age, partner_age, year) ==
    [ self_earnings |->
          calculate_earnings(config.annual_earnings, config.self_yearly_increase,
                             year, config.retirement_age, self_age),
      partner_earnings |->
          calculate_earnings(config.partner_earnings, config.partner_yearly_increase,
                             year, config.partner_retirement_age, partner_age),
      self_social_security |->
          calculate_social_security(config.annual_social_security, config.cola_rate,
                                    config.withdrawal_start_age, self_age),
      partner_social_security |->
          calculate_social_security(config.partner_social_security, config.cola_rate,
                                    config.partner_withdrawal_start_age, partner_age),
      self_pension |->
          calculate_pension(config.annual_pension, config.self_pension_yearly_increase,
                            year, config.retirement_age, self_age),
      partner_pension |->
          calculate_pension(config.partner_pension, config.partner_pension_yearly_increase,
                            year, config.partner_retirement_age, partner_age),
      rental |->
          IF config.rental_start <= current_year + year
             /\ current_year + year <= config.rental_end
          THEN Grow(config.rental_amt, config.rental_yearly_increase,
                    current_year + year - config.rental_start)
          ELSE 0 ]

\* ------------------------------------------------------------------------
\* Expenses
\* ------------------------------------------------------------------------
\* mutant: one payment more than the years remaining
calculate_mortgage_one_more_year(mortgage_payment, year, mortgage_years_remaining) ==
    IF year <= mortgage_years_remaining THEN mortgage_payment ELSE 0

calculate_mortgage(mortgage_payment, year, mortgage_years_remaining) ==
    IF year < mortgage_years_remaining THEN mortgage_payment ELSE 0

\* mutant: the bridge cost is still charged at the Medicare age
healthcare_cost_through_medicare_age(age, healthcare_cost, healthcare_start_age, inflation_mean) ==
    IF age >= healthcare_start_age
    THEN IF age <= MedicareAge
         THEN Grow(healthcare_cost, inflation_mean, age - healthcare_start_age)
         ELSE 0
    ELSE 0

\* one person's branch of calculate_healthcare_costs
healthcare_cost_of(age, healthcare_cost, healthcare_start_age, inflation_mean) ==
    IF age >= healthcare_start_age
    THEN IF age < MedicareAge
         THEN Grow(healthcare_cost, inflation_mean, age - healthcare_start_age)
         ELSE 0
    ELSE 0

calculate_healthcare_costs(current_age, self_healthcare_cost, self_healthcare_start_age, partner_current_age, partner_healthcare_cost, partner_healthcare_start_age, inflation_mean) ==
    LET self_cost == healthcare_cost_of(current_age, self_healthcare_cost,
                                        self_healthcare_start_age, inflation_mean)
        partner_cost == healthcare_cost_of(partner_current_age, partner_healthcare_cost,
                                           partner_healthcare_start_age, inflation_mean)
    IN  [total_cost |-> self_cost + partner_cost,
         self_cost |-> self_cost,
         partner_cost |-> partner_cost]

\* the loop shared by calculate_windfall, get_expense_adjustment and
\* calculate_one_time_expense: the amounts of the slots whose year matches
SumMatching(years, amounts, the_year) ==
    SumOver([i \in DOMAIN years |-> IF years[i] = the_year THEN amounts[i] ELSE 0],
            DOMAIN years)

calculate_windfall(windfall_years, windfall_amounts, the_year) ==
    SumMatching(windfall_years, windfall_amounts, the_year)

get_expense_adjustment(adjust_expense_years, adjust_expense_amounts, the_year) ==
    SumMatching(adjust_expense_years, adjust_expense_amounts, the_year)

calculate_one_time_expense(one_time_years, one_time_amounts, the_year) ==
    SumMatching(one_time_years, one_time_amounts, the_year)

\* mutant: the expense decrease waits until both partners have retired
adjust_expenses_both_retired(current_expense, inflation_rate, annual_expense_decrease, year, current_age, retirement_age, partner_current_age, partner_retirement_age) ==
    IF year > 0
    THEN IF current_age >= retirement_age /\ partner_current_age >= partner_retirement_age
         THEN (current_expense * (100 + inflation_rate - annual_expense_decrease)) \div 100
         ELSE (current_expense * (100 + inflation_rate)) \div 100
    ELSE current_expense

\* inflation_rate is the value np.random.normal(inflation_mean, inflation_std)
\* returned; it is drawn only when year > 0
adjust_expenses(current_expense, inflation_rate, annual_expense_decrease, year, current_age, retirement_age, partner_current_age, partner_retirement_age) ==
    IF year > 0
    THEN IF current_age >= retirement_age \/ partner_current_age >= partner_retirement_age
         THEN (current_expense * (100 + inflation_rate - annual_expense_decrease)) \div 100
         ELSE (current_expense * (100 + inflation_rate)) \div 100
    ELSE current_expense

ExpensesTotal(expenses) ==
    expenses.basic + expenses.mortgage + expenses.self_healthcare
    + expenses.partner_healthcare + expenses.one_time

calculate_yearly_expenses(config, self_age, partner_age, year, current_expense) ==
    LET hc == calculate_healthcare_costs(
                  self_age, config.self_healthcare_cost, config.self_healthcare_start_age,
                  partner_age, config.partner_healthcare_cost,
                  config.partner_healthcare_start_age, config.inflation_mean)
    IN  [ basic |-> current_expense,
          mortgage |-> calculate_mortgage(config.mortgage_payment, year,
                                          config.mortgage_years_remaining),
          self_healthcare |-> hc.self_cost,
          partner_healthcare |-> hc.partner_cost,
          one_time |-> calculate_one_time_expense(config.one_time_years,
                                                  config.one_time_amounts,
                                                  current_year + year) ]

\* ------------------------------------------------------------------------
\* Tax and withdrawal policy
\* ------------------------------------------------------------------------
\* mutant: the draw does not cover its own tax
calculate_portfolio_draw_untaxed(total_expense, gross_income, estimated_tax, tax_rate) ==
    IF total_expense <= gross_income - estimated_tax
    THEN [draw |-> 0, tax |-> estimated_tax]
    ELSE LET portfolio_draw == total_expense - (gross_income - estimated_tax)
         IN  [draw |-> portfolio_draw,
              tax |-> Pct(portfolio_draw, tax_rate) + estimated_tax]

\* returns (portfolio draw, total tax)
calculate_portfolio_draw(total_expense, gross_income, estimated_tax, tax_rate) ==
    IF total_expense <= gross_income - estimated_tax
    THEN [draw |-> 0, tax |-> estimated_tax]
    ELSE LET portfolio_draw == total_expense - (gross_income - estimated_tax)
             portfolio_tax == Pct(portfolio_draw, tax_rate)
             total_tax == portfolio_tax + estimated_tax
         IN  [draw |-> portfolio_draw + portfolio_tax, tax |-> total_tax]

\* mutant: the last account of the waterfall is not capped at its balance
calculate_draws_uncapped(portfolio_draw, balances) ==
    LET brokerage_draw == Min(portfolio_draw, balances.brokerage)
        remaining1 == portfolio_draw - brokerage_draw
        self_401k_draw == Min(remaining1, balances.self_401k)
        remaining2 == remaining1 - self_401k_draw
        partner_401k_draw == Min(remaining2, balances.partner_401k)
        remaining3 == remaining2 - partner_401k_draw
        cash_draw == Min(remaining3, balances.cash)
        remaining4 == remaining3 - cash_draw
    IN  [ self_401k |-> self_401k_draw,
          partner_401k |-> partner_401k_draw,
          roth_ira |-> remaining4,
          brokerage |-> brokerage_draw,
          cash |-> cash_draw,
          total |-> portfolio_draw ]

calculate_draws(portfolio_draw, balances) ==
    LET brokerage_draw == Min(portfolio_draw, balances.brokerage)
        remaining1 == portfolio_draw - brokerage_draw
        self_401k_draw == Min(remaining1, balances.self_401k)
        remaining2 == remaining1 - self_401k_draw
        partner_401k_draw == Min(remaining2, balances.partner_401k)
        remaining3 == remaining2 - partner_401k_draw
        cash_draw == Min(remaining3, balances.cash)
        remaining4 == remaining3 - cash_draw
        roth_ira_draw == Min(remaining4, balances.roth_ira)
        remaining_draw == remaining4 - roth_ira_draw
    IN  [ self_401k |-> self_401k_draw,
          partner_401k |-> partner_401k_draw,
          roth_ira |-> roth_ira_draw,
          brokerage |-> brokerage_draw,
          cash |-> cash_draw,
          total |-> portfolio_draw - remaining_draw ]

\* ------------------------------------------------------------------------
\* Account ledger
\* ------------------------------------------------------------------------
get_latest_limit(contribution_dict, the_year) ==
    LET known == {y \in DOMAIN contribution_dict : y <= the_year}
    IN  IF known = {} THEN 0 ELSE contribution_dict[SetMax(known)]

calculate_401k_contribution(current_age, retirement_age, yearly_contribution, employer_contribution, year, cola_rate, maximize_contribution, pay_growth_rate) ==
    IF current_age >= retirement_age THEN 0
    ELSE
    LET base_limit == get_latest_limit(contribution_limits_401k, current_year)
        adjusted_limit == Grow(base_limit, cola_rate, year)
        base_catch_up_limit == get_latest_limit(contribution_limits_catch_up, current_year)
        adjusted_catch_up_limit == Grow(base_catch_up_limit, cola_rate, year)
        scaled_yearly_contribution == Grow(yearly_contribution, pay_growth_rate, year)
        scaled_employer_contribution == Grow(employer_contribution, pay_growth_rate, year)
        catch_up_amount == IF current_age >= cathup_age_401k
                           THEN adjusted_catch_up_limit ELSE 0
        employee_contribution ==
            IF maximize_contribution
            THEN adjusted_limit + catch_up_amount
            ELSE Min(scaled_yearly_contribution, adjusted_limit + catch_up_amount)
    IN  employee_contribution + scaled_employer_contribution

\* balance * weighted_return, the weighted return being
\* stock rate * stock_percentage / 100 + bond rate * bond_percentage / 100
Weighted(balance, config, stock_return_rate, bond_return_rate) ==
    (balance * (stock_return_rate * config.stock_percentage
                + bond_return_rate * config.bond_percentage)) \div 10000

\* returns is the (equity, bond) pair of sequences of the configured family
calculate_investment_return(config, balances, savings, returns, year) ==
    LET stock_return_rate == returns.equity[year + 1]
        bond_return_rate == returns.bond[year + 1]
    IN  [ self_401k |-> Weighted(balances.self_401k, config, stock_return_rate, bond_return_rate),
          partner_401k |-> Weighted(balances.partner_401k, config, stock_return_rate, bond_return_rate),
          roth_ira |-> Weighted(balances.roth_ira, config, stock_return_rate, bond_return_rate),
          brokerage |-> Weighted(balances.brokerage, config, stock_return_rate, bond_return_rate),
          cash |-> (balances.cash * CASH_ACCOUNT_RETURN_RATE) \div 1000,
          total |-> Weighted(savings, config, stock_return_rate, bond_return_rate) ]

\* mutant: the net surplus goes into brokerage whatever its sign
update_account_balances_any_surplus(balances, returns, draws, self_contribution, partner_contribution, income, expenses, tax) ==
    LET net_surplus == income - expenses - tax - self_contribution - partner_contribution
    IN  [ self_401k |-> balances.self_401k + self_contribution + returns.self_401k - draws.self_401k,
          partner_401k |-> balances.partner_401k + partner_contribution + returns.partner_401k - draws.partner_401k,
          roth_ira |-> balances.roth_ira + returns.roth_ira - draws.roth_ira,
          cash |-> balances.cash + returns.cash - draws.cash,
          brokerage |-> balances.brokerage + returns.brokerage - draws.brokerage + net_surplus ]

\* the balances after the in-place update
update_account_balances(balances, returns, draws, self_contribution, partner_contribution, income, expenses, tax) ==
    LET net_surplus == income - expenses - tax - self_contribution - partner_contribution
    IN  [ self_401k |-> balances.self_401k + self_contribution + returns.self_401k - draws.self_401k,
          partner_401k |-> balances.partner_401k + partner_contribution + returns.partner_401k - draws.partner_401k,
          roth_ira |-> balances.roth_ira + returns.roth_ira - draws.roth_ira,
          cash |-> balances.cash + returns.cash - draws.cash,
          brokerage |->
              IF net_surplus > 0
              THEN balances.brokerage + returns.brokerage - draws.brokerage + net_surplus
              ELSE balances.brokerage + returns.brokerage - draws.brokerage ]

BalancesTotal(balances) ==
    balances.self_401k + balances.partner_401k + balances.roth_ira
    + balances.brokerage + balances.cash

\* ------------------------------------------------------------------------
\* Return model provider
\* ------------------------------------------------------------------------
\* the values one np.random.normal(mean, std) or t.rvs(5, loc=mean, scale=std)
\* draw may return: two points of the distribution's support
DrawsFrom(mean, std) == {mean - 2 * std, mean + 2 * std}

\* np.clip
Clip(x, lo, hi) == Min(Max(x, lo), hi)

Perms(n) == {p \in [1..n -> 1..n] : \A i, j \in 1..n : p[i] = p[j] => i = j}

\* np.random.choice(..., size=years, replace=...) and every size=years draw
\* after it raise ValueError for a negative size; without replacement the
\* choice also raises when years exceeds the number of historical years
preselect_raises(simulation_type, years) ==
    \/ years < 0
    \/ /\ simulation_type # "Empirical Distribution"
       /\ years > Cardinality(DOMAIN historical_equity_returns)

\* mutant: the Normal family's draws are returned as drawn, unclipped
preselect_investment_returns_unclipped(simulation_type, years, stock_mean, stock_std, bond_mean, bond_std, equity_min, equity_max, bond_min, bond_max) ==
    CASE simulation_type \in {"Normal Distribution", "Students-T Distribution"} ->
           { [equity |-> e, bond |-> b] :
             e \in [1..years -> DrawsFrom(stock_mean, stock_std)],
             b \in [1..years -> DrawsFrom(bond_mean, bond_std)] }
      [] simulation_type = "Empirical Distribution" ->
           { [equity |-> [i \in 1..years |-> historical_equity_returns[sel[i]]],
              bond |-> [i \in 1..years |-> historical_bond_returns[sel[q[i]]]]] :
             sel \in [1..years -> DOMAIN historical_equity_returns],
             q \in Perms(years) }
      [] OTHER -> { [equity |-> <<>>, bond |-> <<>>] }

\* The set of (equity, bond) sequence pairs preselect_investment_returns may
\* return for the configured family; the other families' entries of the
\* returned dictionary are never read.  Empirical: sel is the selection of
\* years after the shuffle of the equity list, q the shuffle of the bond list
\* relative to it.
preselect_investment_returns(simulation_type, years, stock_mean, stock_std, bond_mean, bond_std, equity_min, equity_max, bond_min, bond_max) ==
    CASE simulation_type = "Normal Distribution" ->
           { [equity |-> [i \in 1..years |-> Clip(e[i], equity_min, equity_max)],
              bond |-> [i \in 1..years |-> Clip(b[i], bond_min, bond_max)]] :
             e \in [1..years -> DrawsFrom(stock_mean, stock_std)],
             b \in [1..years -> DrawsFrom(bond_mean, bond_std)] }
      [] simulation_type = "Students-T Distribution" ->
           { [equity |-> e, bond |-> b] :
             e \in [1..years -> DrawsFrom(stock_mean, stock_std)],
             b \in [1..years -> DrawsFrom(bond_mean, bond_std)] }
      [] simulation_type = "Empirical Distribution" ->
           { [equity |-> [i \in 1..years |-> historical_equity_returns[sel[i]]],
              bond |-> [i \in 1..years |-> historical_bond_returns[sel[q[i]]]]] :
             sel \in [1..years -> DOMAIN historical_equity_returns],
             q \in Perms(years) }
      [] OTHER -> { [equity |-> <<>>, bond |-> <<>>] }

SupportedTypes ==
    {"Normal Distribution", "Students-T Distribution", "Empirical Distribution"}

\* "years_in_simulation = config.life_expectancy - config.current_age + 1"
years_in_simulation(config) == config.life_expectancy - config.current_age + 1

\* ------------------------------------------------------------------------
\* Configurations
\* ------------------------------------------------------------------------
NoSlots == <<0, 0, 0>>

\* every amount zero, nobody working, no events
BlankConfig ==
    [ current_age |-> 63, partner_current_age |-> 62, life_expectancy |-> 63,
      retirement_age |-> 60, partner_retirement_age |-> 60,
      initial_savings |-> 0, self_401k_balance |-> 0, partner_401k_balance |-> 0,
      roth_ira_balance |-> 0, cash_savings_balance |-> 0, brokerage_balance |-> 0,
      annual_earnings |-> 0, partner_earnings |-> 0,
      self_yearly_increase |-> 0, partner_yearly_increase |-> 0,
      annual_pension |-> 0, partner_pension |-> 0,
      self_pension_yearly_increase |-> 0, partner_pension_yearly_increase |-> 0,
      annual_social_security |-> 0, partner_social_security |-> 0,
      withdrawal_start_age |-> 67, partner_withdrawal_start_age |-> 67,
      self_401k_contribution |-> 0, partner_401k_contribution |-> 0,
      employer_self_401k_contribution |-> 0, employer_partner_401k_contribution |-> 0,
      maximize_self_contribution |-> FALSE, maximize_partner_contribution |-> FALSE,
      tax_rate |-> 0,
      annual_expense |-> 0, mortgage_payment |-> 0, mortgage_years_remaining |-> 0,
      self_healthcare_cost |-> 0, partner_healthcare_cost |-> 0,
      self_healthcare_start_age |-> 60, partner_healthcare_start_age |-> 60,
      annual_expense_decrease |-> 0,
      stock_percentage |-> 60, bond_percentage |-> 40,
      stock_return_mean |-> 0, bond_return_mean |-> 0,
      stock_return_std |-> 0, bond_return_std |-> 0,
      simulations |-> 1, simulation_type |-> "Normal Distribution",
      cola_rate |-> 0, inflation_mean |-> 0, inflation_std |-> 0,
      years_until_downsize |-> 0, residual_amount |-> 0,
      adjust_expense_years |-> NoSlots, adjust_expense_amounts |-> NoSlots,
      one_time_years |-> NoSlots, one_time_amounts |-> NoSlots,
      windfall_years |-> NoSlots, windfall_amounts |-> NoSlots,
      rental_start |-> 0, rental_end |-> 0, rental_amt |-> 0,
      rental_yearly_increase |-> 0 ]

\* a retired couple living off five accounts, a pension and, from the second
\* year, a social security benefit; equity returns are random
Retired ==
    [ BlankConfig EXCEPT
      !.initial_savings = 200, !.self_401k_balance = 50, !.partner_401k_balance = 20,
      !.roth_ira_balance = 30, !.cash_savings_balance = 50, !.brokerage_balance = 50,
      !.annual_pension = 20, !.annual_social_security = 30, !.withdrawal_start_age = 64,
      !.cola_rate = 2, !.tax_rate = 10,
      !.annual_expense = 150, !.annual_expense_decrease = 1, !.inflation_mean = 2,
      !.mortgage_payment = 10, !.mortgage_years_remaining = 1,
      !.self_healthcare_cost = 10, !.partner_healthcare_cost = 10,
      !.partner_healthcare_start_age = 63,
      !.stock_percentage = 50, !.bond_percentage = 50,
      !.stock_return_mean = 0, !.stock_return_std = 25, !.bond_return_mean = 5 ]

\* the retired couple with less money and random inflation: a good first year
\* leaves little, and what follows depends on the inflation drawn
Squeezed ==
    [ Retired EXCEPT
      !.initial_savings = 150, !.self_401k_balance = 30, !.brokerage_balance = 30,
      !.cash_savings_balance = 40, !.inflation_std = 2 ]

\* the retired couple in a falling market, with a windfall in the first year,
\* downsize proceeds in the second, an expense adjustment and a one-time expense
Windfall ==
    [ Retired EXCEPT
      !.stock_return_mean = -40, !.stock_return_std = 0,
      !.simulation_type = "Students-T Distribution",
      !.windfall_years = <<current_year, current_year + 2, 0>>,
      !.windfall_amounts = <<300, 50, 0>>,
      !.years_until_downsize = 1, !.residual_amount = 100,
      !.adjust_expense_years = <<current_year + 1, 0, 0>>,
      !.adjust_expense_amounts = <<20, 0, 0>>,
      !.one_time_years = <<current_year + 1, current_year + 1, 0>>,
      !.one_time_amounts = <<15, 5, 0>> ]

\* a working couple saving into both tax-deferred accounts; one retires in the
\* third year; inflation is random, returns are not
Workers ==
    [ BlankConfig EXCEPT
      !.current_age = 49, !.partner_current_age = 50,
      !.retirement_age = 51, !.partner_retirement_age = 55,
      !.initial_savings = 100, !.self_401k_balance = 40, !.partner_401k_balance = 30,
      !.brokerage_balance = 20, !.cash_savings_balance = 10,
      !.annual_earnings = 300, !.partner_earnings = 200, !.self_yearly_increase = 10,
      !.self_401k_contribution = 20, !.partner_401k_contribution = 10,
      !.employer_self_401k_contribution = 5, !.employer_partner_401k_contribution = 5,
      !.tax_rate = 20, !.annual_expense = 100, !.annual_expense_decrease = 1,
      !.inflation_mean = 2, !.inflation_std = 1,
      !.mortgage_payment = 50, !.mortgage_years_remaining = 2,
      !.stock_return_mean = 10, !.bond_return_mean = 5,
      !.simulation_type = "Empirical Distribution",
      !.rental_start = current_year + 1, !.rental_end = current_year + 2,
      !.rental_amt = 10, !.rental_yearly_increase = 10 ]

\* the retired couple with little money and a large social security benefit
\* from the second year on: the first year empties the accounts, the benefit
\* then covers the expenses
LateBenefit ==
    [ Retired EXCEPT
      !.initial_savings = 100, !.self_401k_balance = 20, !.partner_401k_balance = 10,
      !.roth_ira_balance = 10, !.cash_savings_balance = 30, !.brokerage_balance = 30,
      !.annual_social_security = 250 ]

\* the working couple with twice the expense and a fixed inflation: a surplus
\* while both work, a deficit once one of them has retired
Stretched ==
    [ Workers EXCEPT !.annual_expense = 200, !.inflation_std = 0 ]

\* a retiree with one year's expense in stocks and a social security benefit
\* from the second year that is close to the expense: the first year ends above
\* or below zero with the return drawn, the second with the inflation drawn
Rebound ==
    [ BlankConfig EXCEPT
      !.initial_savings = 100, !.brokerage_balance = 100, !.annual_expense = 100,
      !.stock_percentage = 100, !.bond_percentage = 0, !.stock_return_std = 5,
      !.annual_social_security = 95, !.withdrawal_start_age = 64,
      !.inflation_std = 5 ]

\* savings one unit short of the first year's expense, nothing else
KnifeEdge ==
    [ BlankConfig EXCEPT
      !.initial_savings = 100, !.brokerage_balance = 100, !.annual_expense = 101 ]

Scenarios ==
    { Retired,
      [Retired EXCEPT !.simulation_type = "Students-T Distribution"],
      [Retired EXCEPT !.simulation_type = "Empirical Distribution"],
      [Retired EXCEPT !.simulation_type = "Markov Chain"],
      Squeezed, Windfall, LateBenefit, Workers, Stretched, Rebound, KnifeEdge }

\* the retired couple under the Normal and the Student's-t family, with a
\* horizon one year longer than the historical table
LongHorizonConfigs ==
    { [Retired EXCEPT !.simulation_type = t,
                      !.life_expectancy = Retired.current_age
                                          + Cardinality(DOMAIN historical_equity_returns)] :
      t \in {"Normal Distribution", "Students-T Distribution"} }

\* each scenario with every horizon from -1 to MaxYears and every number of
\* trajectories up to MaxSims, within MaxSteps year-steps
Configs ==
    { c \in { [s EXCEPT !.life_expectancy = s.current_age - 1 + h, !.simulations = n] :
              s \in Scenarios, h \in -1..MaxYears, n \in 0..MaxSims } :
      Max(years_in_simulation(c), 0) * c.simulations <= MaxSteps }
    \cup LongHorizonConfigs

\* ------------------------------------------------------------------------
\* Trajectory driver: the pieces of one pass of the year loop
\* ------------------------------------------------------------------------
\* year_of_depletion = None
None == <<>>

\* mutant: a negative rolling balance is carried into the year as it is
savings_unfloored(savings) == savings

\* "if savings < 0: savings = -1" at the top of the year loop
floor_savings(savings) == IF savings < 0 THEN DepletionFloor ELSE savings

\* mutant: the tax is left out of the ending balance
ending_value_untaxed(savings, investment_return, income, expenses, total_tax) ==
    savings + investment_return.total + IncomeTotal(income) - ExpensesTotal(expenses)

ending_value(savings, investment_return, income, expenses, total_tax) ==
    savings + investment_return.total + IncomeTotal(income)
    - ExpensesTotal(expenses) - total_tax

\* ending_portfolio_value / ((1 + inflation_mean) ** (year + 1))
RECURSIVE constant_currency(_, _, _)
constant_currency(value, inflation_mean, n) ==
    IF n <= 0 THEN value
    ELSE (constant_currency(value, inflation_mean, n - 1) * 100) \div (100 + inflation_mean)

\* mutant: the windfall is not carried into the next year
next_opening_without_windfall(ending_portfolio_value, downsize_proceeds, windfall_amount) ==
    ending_portfolio_value + downsize_proceeds

\* "Set next period's opening balance"
next_opening_balance(ending_portfolio_value, downsize_proceeds, windfall_amount) ==
    ending_portfolio_value + downsize_proceeds + windfall_amount

\* "Check for depletion - only set once per simulation"
check_depletion(year_of_depletion, savings, year) ==
    IF savings < 0 /\ year_of_depletion = None
    THEN <<current_year + year>>
    ELSE year_of_depletion

\* "If portfolio never depleted, set year_of_depletion to final year"
final_year_of_depletion(year_of_depletion, years) ==
    IF year_of_depletion = None
    THEN current_year + years - 1
    ELSE year_of_depletion[1]

\* mutant: the year loop stops once the rolling balance is negative
year_loop_until_depleted(config, year, savings) ==
    year < years_in_simulation(config) /\ savings >= 0

\* "for year in range(years_in_simulation)": whether another pass follows.
\* The rolling balance plays no part in it.
year_loop_continues(config, year, savings) == year < years_in_simulation(config)

\* mutant: a final balance at the floor is flagged a success
success_from_floor(savings) == savings >= DepletionFloor

\* the "success" entry of a simulation result
success_flag(savings) == savings >= 0

\* mutant: a final balance at the floor counts as a success
counts_from_floor(savings) == savings >= DepletionFloor

\* the condition of "Update success/failure counts"
counts_as_success(savings) == savings >= 0

\* One pass of the body of "for year in range(years_in_simulation)":
\* the YearlyCashFlow it appends and the values it leaves in the loop's
\* variables.  inflation_rate is the draw adjust_expenses makes when year > 0.
simulate_year(config, sim_id, yr, bal, savings_in, expense_in, rets, inflation_rate) ==
    LET opening == floor_savings(savings_in)
        self_age == config.current_age + yr
        partner_age == config.partner_current_age + yr
        income == calculate_yearly_income(config, self_age, partner_age, yr)
        self_contribution ==
            calculate_401k_contribution(
                self_age, config.retirement_age, config.self_401k_contribution,
                config.employer_self_401k_contribution, yr, config.cola_rate,
                config.maximize_self_contribution, config.self_yearly_increase)
        partner_contribution ==
            calculate_401k_contribution(
                partner_age, config.partner_retirement_age, config.partner_401k_contribution,
                config.employer_partner_401k_contribution, yr, config.cola_rate,
                config.maximize_partner_contribution, config.partner_yearly_increase)
        expense == adjust_expenses(
                       expense_in, inflation_rate, config.annual_expense_decrease, yr,
                       self_age, config.retirement_age,
                       partner_age, config.partner_retirement_age)
        expenses == calculate_yearly_expenses(config, self_age, partner_age, yr, expense)
        pd == calculate_portfolio_draw(
                  ExpensesTotal(expenses), IncomeTotal(income),
                  Pct(IncomeTotal(income), config.tax_rate), config.tax_rate)
        draws == calculate_draws(pd.draw, bal)
        investment_return == calculate_investment_return(config, bal, opening, rets, yr)
        downsize_proceeds ==
            IF yr = config.years_until_downsize THEN config.residual_amount ELSE 0
        windfall_amount ==
            calculate_windfall(config.windfall_years, config.windfall_amounts,
                               current_year + yr)
        expense_adjustment ==
            get_expense_adjustment(config.adjust_expense_years,
                                   config.adjust_expense_amounts, current_year + yr)
        new_balances ==
            update_account_balances(bal, investment_return, draws,
                                    self_contribution, partner_contribution,
                                    IncomeTotal(income), ExpensesTotal(expenses), pd.tax)
        ending_portfolio_value ==
            ending_value(opening, investment_return, income, expenses, pd.tax)
    IN  [ cash_flow_entry |->
              [ year |-> current_year + yr,
                self_age |-> self_age,
                partner_age |-> partner_age,
                income |-> income,
                expenses |-> expenses,
                tax |-> pd.tax,
                beginning_balance |-> opening,
                ending_balance |-> ending_portfolio_value,
                end_value_constant_currency |->
                    constant_currency(ending_portfolio_value, config.inflation_mean, yr + 1),
                portfolio_draw |-> pd.draw,
                draws |-> draws,
                investment_return |-> investment_return,
                contributions |-> <<self_contribution, partner_contribution>>,
                account_balances |-> new_balances,
                downsize_proceeds |-> downsize_proceeds,
                windfall_amount |-> windfall_amount,
                expense_adjustment |-> expense_adjustment,
                simulation_id |-> sim_id ],
          balances |-> new_balances,
          current_annual_expense |-> expense,
          savings |-> next_opening_balance(ending_portfolio_value,
                                           downsize_proceeds, windfall_amount) ]

\* mutant: the entry holds a reference to the trajectory's AccountBalances,
\* so every entry of the list shows the ledger as the last update left it
record_cash_flow_shared_ledger(flows, cash_flow_entry) ==
    Append([k \in 1..Len(flows) |->
               [flows[k] EXCEPT !.account_balances = cash_flow_entry.account_balances]],
           cash_flow_entry)

\* cash_flows.append(cash_flow_entry), the entry's account_balances being
\* copy.deepcopy(balances): a value of its own, which later updates of the
\* ledger do not reach
record_cash_flow(flows, cash_flow_entry) == Append(flows, cash_flow_entry)

\* ------------------------------------------------------------------------
\* Display
\* ------------------------------------------------------------------------
\* YearlyReturns.return_rate: total / 100 when total is not 0, in hundredths
return_rate(investment_return) ==
    IF investment_return.total # 0 THEN investment_return.total ELSE 0

\* the two rates of convert_to_dict_for_display: 'Investment Return %' in
\* hundredths, 'Drawdown %' as portfolio_draw / ending_balance in percent
convert_to_dict_for_display(cash_flow_entry) ==
    [ investment_return_pct |-> return_rate(cash_flow_entry.investment_return),
      drawdown_pct |->
          IF cash_flow_entry.ending_balance > 0
          THEN (cash_flow_entry.portfolio_draw * 100) \div cash_flow_entry.ending_balance
          ELSE 0 ]

\* ------------------------------------------------------------------------
\* Batch runner: ranking
\* ------------------------------------------------------------------------
\* mutant: the sort key is the final balance alone
key_le_balance_only(a, b) == a.final_balance <= b.final_balance

\* mutant: a trajectory is placed ahead of the trajectories with an equal key,
\* as a sort that is not stable may do
key_lt(a, b) ==
    \/ a.year_of_depletion < b.year_of_depletion
    \/ /\ a.year_of_depletion = b.year_of_depletion
       /\ a.final_balance < b.final_balance

\* the sort key (year_of_depletion, final_balance), compared as Python
\* compares tuples
key_le(a, b) ==
    \/ a.year_of_depletion < b.year_of_depletion
    \/ /\ a.year_of_depletion = b.year_of_depletion
       /\ a.final_balance <= b.final_balance

\* sorted(..., key=...): ascending and stable
RECURSIVE sorted_by_key(_)
sorted_by_key(results) ==
    IF results = <<>> THEN <<>>
    ELSE LET n == Len(results)
             x == results[n]
             front == sorted_by_key(SubSeq(results, 1, n - 1))
             k == Cardinality({i \in 1..(n - 1) : key_le(front[i], x)})
         IN  SubSeq(front, 1, k) \o <<x>> \o SubSeq(front, k + 1, n - 1)

\* ------------------------------------------------------------------------
\* State
\* ------------------------------------------------------------------------
VARIABLES
    config,                    \* the SimulationConfig of the run
    pc,                        \* where monte_carlo_simulation is
    sim,                       \* the simulation loop's index
    year,                      \* the year loop's index
    balances,                  \* the trajectory's AccountBalances
    savings,                   \* the rolling portfolio balance
    current_annual_expense,
    cash_flows,                \* the trajectory's YearlyCashFlow list
    year_of_depletion,         \* None or <<calendar year>>
    returns,                   \* the preselected returns of the trajectory
    success_count,
    failure_count,
    all_simulation_results,
    sorted_simulation_results, \* the returned list
    call                       \* a single call of one of the pure functions

vars ==
    << config, pc, sim, year, balances, savings, current_annual_expense, cash_flows,
       year_of_depletion, returns, success_count, failure_count,
       all_simulation_results, sorted_simulation_results, call >>

trajectory_vars ==
    << balances, savings, current_annual_expense, cash_flows, year_of_depletion, returns >>

batch_vars ==
    << success_count, failure_count, all_simulation_results, sorted_simulation_results >>

NoBalances == [self_401k |-> 0, partner_401k |-> 0, roth_ira |-> 0, brokerage |-> 0, cash |-> 0]

NoReturns == [equity |-> <<>>, bond |-> <<>>]

NoCall == [fn |-> "none"]

\* monte_carlo_simulation(config) has been entered: the counters and the
\* result list are initialised, no trajectory has started
Init ==
    /\ config \in Configs
    /\ pc = "sim_loop"
    /\ sim = 0
    /\ year = 0
    /\ balances = NoBalances
    /\ savings = 0
    /\ current_annual_expense = 0
    /\ cash_flows = <<>>
    /\ year_of_depletion = None
    /\ returns = NoReturns
    /\ success_count = 0
    /\ failure_count = 0
    /\ all_simulation_results = <<>>
    /\ sorted_simulation_results = <<>>
    /\ call = NoCall

\* ------------------------------------------------------------------------
\* Actions of monte_carlo_simulation
\* ------------------------------------------------------------------------
\* mutant: a trajectory after the first goes on with the ledger, the rolling
\* balance and the expense the previous one left
trajectory_state_carried_over ==
    IF sim = 0
    THEN [ balances |-> [ self_401k |-> config.self_401k_balance,
                          partner_401k |-> config.partner_401k_balance,
                          roth_ira |-> config.roth_ira_balance,
                          brokerage |-> config.brokerage_balance,
                          cash |-> config.cash_savings_balance ],
           savings |-> config.initial_savings,
           current_annual_expense |-> config.annual_expense,
           cash_flows |-> <<>>,
           year_of_depletion |-> None ]
    ELSE [ balances |-> balances,
           savings |-> savings,
           current_annual_expense |-> current_annual_expense,
           cash_flows |-> <<>>,
           year_of_depletion |-> None ]

\* "Initialize accounts for this simulation" and "Initialize simulation
\* variables": new objects built from the config for each trajectory
initial_trajectory_state ==
    [ balances |-> [ self_401k |-> config.self_401k_balance,
                     partner_401k |-> config.partner_401k_balance,
                     roth_ira |-> config.roth_ira_balance,
                     brokerage |-> config.brokerage_balance,
                     cash |-> config.cash_savings_balance ],
      savings |-> config.initial_savings,
      current_annual_expense |-> config.annual_expense,
      cash_flows |-> <<>>,
      year_of_depletion |-> None ]

\* the head of "for sim in range(config.simulations)" up to the year loop
StartTrajectory ==
    /\ pc = "sim_loop"
    /\ sim < config.simulations
    /\ ~preselect_raises(config.simulation_type, years_in_simulation(config))
    /\ balances' = initial_trajectory_state.balances
    /\ savings' = initial_trajectory_state.savings
    /\ current_annual_expense' = initial_trajectory_state.current_annual_expense
    /\ cash_flows' = initial_trajectory_state.cash_flows
    /\ year_of_depletion' = initial_trajectory_state.year_of_depletion
    /\ returns' \in preselect_investment_returns(
                        config.simulation_type, years_in_simulation(config),
                        config.stock_return_mean, config.stock_return_std,
                        config.bond_return_mean, config.bond_return_std,
                        equity_return_min, equity_return_max,
                        bond_return_min, bond_return_max)
    /\ year' = 0
    /\ pc' = "year_loop"
    /\ UNCHANGED << config, sim, batch_vars, call >>

\* preselect_investment_returns raises: the exception leaves
\* monte_carlo_simulation, which returns nothing
PreselectError ==
    /\ pc = "sim_loop"
    /\ sim < config.simulations
    /\ preselect_raises(config.simulation_type, years_in_simulation(config))
    /\ pc' = "error"
    /\ UNCHANGED << config, sim, year, trajectory_vars, batch_vars, call >>

\* one pass of "for year in range(years_in_simulation)"
SimulateYear ==
    /\ pc = "year_loop"
    /\ year_loop_continues(config, year, savings)
    /\ config.simulation_type \in SupportedTypes
    /\ \E inflation_rate \in
            IF year > 0 THEN DrawsFrom(config.inflation_mean, config.inflation_std) ELSE {0} :
         LET r == simulate_year(config, sim, year, balances, savings,
                                current_annual_expense, returns, inflation_rate)
         IN  /\ cash_flows' = record_cash_flow(cash_flows, r.cash_flow_entry)
             /\ balances' = r.balances
             /\ current_annual_expense' = r.current_annual_expense
             /\ savings' = r.savings
             /\ year_of_depletion' = check_depletion(year_of_depletion, r.savings, year)
    /\ year' = year + 1
    /\ UNCHANGED << config, pc, sim, returns, batch_vars, call >>

\* calculate_investment_return raises ValueError("Unknown simulation type")
UnknownTypeError ==
    /\ pc = "year_loop"
    /\ year_loop_continues(config, year, savings)
    /\ config.simulation_type \notin SupportedTypes
    /\ pc' = "error"
    /\ UNCHANGED << config, sim, year, trajectory_vars, batch_vars, call >>

\* the year loop has ended: the rest of the simulation loop's body
FinishTrajectory ==
    /\ pc = "year_loop"
    /\ ~year_loop_continues(config, year, savings)
    /\ LET yod == final_year_of_depletion(year_of_depletion, years_in_simulation(config))
           simulation_result ==
               [ simulation_id |-> sim,
                 year_of_depletion |-> yod,
                 final_balance |-> savings,
                 success |-> success_flag(savings),
                 cash_flows |-> cash_flows ]
       IN  /\ year_of_depletion' = <<yod>>
           /\ all_simulation_results' = Append(all_simulation_results, simulation_result)
    /\ IF counts_as_success(savings)
       THEN /\ success_count' = success_count + 1
            /\ failure_count' = failure_count
       ELSE /\ failure_count' = failure_count + 1
            /\ success_count' = success_count
    /\ sim' = sim + 1
    /\ pc' = "sim_loop"
    /\ UNCHANGED << config, year, balances, savings, current_annual_expense, cash_flows,
                    returns, sorted_simulation_results, call >>

\* the simulation loop has ended: sort and return
SortAndReturn ==
    /\ pc = "sim_loop"
    /\ sim >= config.simulations
    /\ sorted_simulation_results' = sorted_by_key(all_simulation_results)
    /\ pc' = "done"
    /\ UNCHANGED << config, sim, year, trajectory_vars, success_count, failure_count,
                    all_simulation_results, call >>

Next ==
    \/ StartTrajectory
    \/ PreselectError
    \/ SimulateYear
    \/ UnknownTypeError
    \/ FinishTrajectory
    \/ SortAndReturn

Spec == Init /\ [][Next]_vars

\* ------------------------------------------------------------------------
\* Single calls of the pure functions, on inputs drawn from small sets
\* ------------------------------------------------------------------------
CallAmounts == {0, 50, 100, 101, 170, 250}

CallRates == {0, 10, 25}

CallBalances ==
    [ self_401k : {-5, 0, 60}, partner_401k : {0, 60}, roth_ira : {-3, 0, 30},
      brokerage : {-5, 0, 60}, cash : {0, 3, 60} ]

\* no batch is running
InitCalls ==
    /\ config = BlankConfig
    /\ pc = "idle"
    /\ sim = 0
    /\ year = 0
    /\ balances = NoBalances
    /\ savings = 0
    /\ current_annual_expense = 0
    /\ cash_flows = <<>>
    /\ year_of_depletion = None
    /\ returns = NoReturns
    /\ success_count = 0
    /\ failure_count = 0
    /\ all_simulation_results = <<>>
    /\ sorted_simulation_results = <<>>
    /\ call = NoCall

run_vars ==
    << config, pc, sim, year, trajectory_vars, batch_vars >>

\* calculate_draws(portfolio_draw, balances)
CallCalculateDraws ==
    /\ pc = "idle"
    /\ call = NoCall
    /\ \E portfolio_draw \in CallAmounts, b \in CallBalances :
         call' = [ fn |-> "calculate_draws",
                   portfolio_draw |-> portfolio_draw,
                   balances |-> b,
                   result |-> calculate_draws(portfolio_draw, b) ]
    /\ UNCHANGED run_vars

\* calculate_portfolio_draw as the year loop calls it, the estimated tax
\* being income.total * config.tax_rate
CallCalculatePortfolioDraw ==
    /\ pc = "idle"
    /\ call = NoCall
    /\ \E total_expense \in CallAmounts, gross_income \in CallAmounts, tax_rate \in CallRates :
         call' = [ fn |-> "calculate_portfolio_draw",
                   total_expense |-> total_expense,
                   gross_income |-> gross_income,
                   tax_rate |-> tax_rate,
                   result |-> calculate_portfolio_draw(
                                  total_expense, gross_income,
                                  Pct(gross_income, tax_rate), tax_rate) ]
    /\ UNCHANGED run_vars

\* calculate_earnings as calculate_yearly_income calls it for one person: the
\* age passed is the person's current age plus the year index
CallCalculateEarnings ==
    /\ pc = "idle"
    /\ call = NoCall
    /\ \E starting_earnings \in {0, 100, 1000}, yearly_increment \in {0, 3, 10},
          y \in 0..MaxYears, retirement_age \in {59, 60, 61}, current_age \in {58, 59, 60} :
         call' = [ fn |-> "calculate_earnings",
                   starting_earnings |-> starting_earnings,
                   yearly_increment |-> yearly_increment,
                   year |-> y,
                   retirement_age |-> retirement_age,
                   current_age |-> current_age,
                   result |-> calculate_earnings(starting_earnings, yearly_increment, y,
                                                 retirement_age, current_age + y) ]
    /\ UNCHANGED run_vars

\* calculate_healthcare_costs(current_age, ..., inflation_mean)
CallCalculateHealthcareCosts ==
    /\ pc = "idle"
    /\ call = NoCall
    /\ \E current_age \in {59, 60, 62, 64, 65, 66}, self_healthcare_cost \in {0, 100},
          self_healthcare_start_age \in {60, 62, 66},
          partner_current_age \in {58, 64, 65}, partner_healthcare_cost \in {100, 200},
          partner_healthcare_start_age \in {60}, inflation_mean \in {0, 3, 10} :
         call' = [ fn |-> "calculate_healthcare_costs",
                   current_age |-> current_age,
                   self_healthcare_cost |-> self_healthcare_cost,
                   self_healthcare_start_age |-> self_healthcare_start_age,
                   partner_current_age |-> partner_current_age,
                   partner_healthcare_cost |-> partner_healthcare_cost,
                   partner_healthcare_start_age |-> partner_healthcare_start_age,
                   inflation_mean |-> inflation_mean,
                   result |-> calculate_healthcare_costs(
                                  current_age, self_healthcare_cost,
                                  self_healthcare_start_age, partner_current_age,
                                  partner_healthcare_cost, partner_healthcare_start_age,
                                  inflation_mean) ]
    /\ UNCHANGED run_vars

\* calculate_mortgage(mortgage_payment, year, mortgage_years_remaining)
CallCalculateMortgage ==
    /\ pc = "idle"
    /\ call = NoCall
    /\ \E mortgage_payment \in {0, 240}, y \in 0..(MaxYears + 2),
          mortgage_years_remaining \in 0..3 :
         call' = [ fn |-> "calculate_mortgage",
                   mortgage_payment |-> mortgage_payment,
                   year |-> y,
                   mortgage_years_remaining |-> mortgage_years_remaining,
                   result |-> calculate_mortgage(mortgage_payment, y,
                                                 mortgage_years_remaining) ]
    /\ UNCHANGED run_vars

NextCalls ==
    \/ CallCalculateDraws
    \/ CallCalculatePortfolioDraw
    \/ CallCalculateEarnings
    \/ CallCalculateHealthcareCosts
    \/ CallCalculateMortgage

SpecCalls == InitCalls /\ [][NextCalls]_vars

\* ------------------------------------------------------------------------
\* Properties
\* ------------------------------------------------------------------------
\* every YearlyCashFlow list recorded so far: the finished trajectories' and
\* the running one's
RecordedFlows ==
    {cash_flows} \cup
    {all_simulation_results[i].cash_flows : i \in 1..Len(all_simulation_results)}

Results == {all_simulation_results[i] : i \in 1..Len(all_simulation_results)}

\* C1: in every recorded year the ending balance is the recorded opening
\* balance plus the total investment return plus the total income minus the
\* total expenses minus the tax.
C1_LedgerIdentity ==
    \A cfs \in RecordedFlows : \A k \in 1..Len(cfs) :
        cfs[k].ending_balance =
            cfs[k].beginning_balance + cfs[k].investment_return.total
            + IncomeTotal(cfs[k].income) - ExpensesTotal(cfs[k].expenses) - cfs[k].tax

\* a recorded year that opened at the floor, with a return, an income, an
\* expense and a tax that are all non-zero
C1_Witness ==
    \E cfs \in RecordedFlows : \E k \in 2..Len(cfs) :
        /\ cfs[k - 1].ending_balance < DepletionFloor
        /\ cfs[k].beginning_balance = DepletionFloor
        /\ cfs[k].investment_return.total # 0
        /\ IncomeTotal(cfs[k].income) > 0
        /\ ExpensesTotal(cfs[k].expenses) > 0
        /\ cfs[k].tax > 0

\* the indices of the years of a trajectory that ended below zero
NegativeYears(cfs) == {k \in 1..Len(cfs) : cfs[k].ending_balance < 0}

\* C2: a trajectory's year_of_depletion is the calendar year of its first
\* year with a negative ending balance, or the horizon's final year when no
\* year ended negative.
C2_DepletionIsFirstNegativeYear ==
    \A r \in Results :
        r.year_of_depletion =
            IF NegativeYears(r.cash_flows) = {}
            THEN current_year + (config.life_expectancy - config.current_age + 1) - 1
            ELSE r.cash_flows[SetMin(NegativeYears(r.cash_flows))].year

\* C3: calculate_draws never takes more from an account than its balance, the
\* five draws add up to the reported total, and the total is at most the
\* requested draw.
C3_DrawsWithinBalances ==
    call.fn = "calculate_draws" =>
        LET d == call.result
            b == call.balances
        IN  /\ d.brokerage <= b.brokerage
            /\ d.self_401k <= b.self_401k
            /\ d.partner_401k <= b.partner_401k
            /\ d.cash <= b.cash
            /\ d.roth_ira <= b.roth_ira
            /\ d.brokerage + d.self_401k + d.partner_401k + d.cash + d.roth_ira = d.total
            /\ d.total <= call.portfolio_draw

\* a call whose request exceeds what the five accounts hold, one of them
\* being overdrawn already
C3_Witness ==
    /\ call.fn = "calculate_draws"
    /\ call.result.total < call.portfolio_draw
    /\ call.balances.brokerage < 0
    /\ call.result.roth_ira > 0

\* C4: the returned list holds each of the N trajectories exactly once, in
\* ascending order of (year_of_depletion, final_balance).
C4_SortedPermutation ==
    pc = "done" =>
        LET s == sorted_simulation_results
        IN  /\ Len(s) = config.simulations
            /\ \A id \in 0..(config.simulations - 1) :
                   Cardinality({i \in 1..Len(s) : s[i].simulation_id = id}) = 1
            /\ \A i \in 1..Len(s) : s[i] \in Results
            /\ \A i \in 1..(Len(s) - 1) :
                   \/ s[i].year_of_depletion < s[i + 1].year_of_depletion
                   \/ /\ s[i].year_of_depletion = s[i + 1].year_of_depletion
                      /\ s[i].final_balance <= s[i + 1].final_balance

\* a returned list that is not in the order the trajectories ran in, whose
\* first entry was depleted earlier and ended with more than the second
C4_Witness ==
    /\ pc = "done"
    /\ Len(sorted_simulation_results) = 2
    /\ sorted_simulation_results[1].simulation_id = 1
    /\ sorted_simulation_results[1].year_of_depletion
           < sorted_simulation_results[2].year_of_depletion
    /\ sorted_simulation_results[1].final_balance
           > sorted_simulation_results[2].final_balance

\* C5: the two counters add up to the number of trajectories run, and
\* success_count is the number of them whose final balance is >= 0.
C5_Tally ==
    pc \in {"sim_loop", "done"} =>
        /\ success_count + failure_count = Len(all_simulation_results)
        /\ success_count = Cardinality({i \in 1..Len(all_simulation_results) :
                                          all_simulation_results[i].final_balance >= 0})
        /\ pc = "done" => Len(all_simulation_results) = config.simulations

\* a single-trajectory batch that ended one unit below zero and was counted 0/1
C5_Witness ==
    /\ pc = "done"
    /\ config.simulations = 1
    /\ all_simulation_results[1].final_balance = -1
    /\ success_count = 0
    /\ failure_count = 1

\* C6 as stated: success is true exactly when the final balance is at least
\* the depletion floor.
C6_SuccessAtFloor ==
    \A r \in Results : r.success <=> (r.final_balance >= DepletionFloor)

\* C6 amended: success is true exactly when the final balance is at least 0.
C6_SuccessAtZero ==
    \A r \in Results : r.success <=> (r.final_balance >= 0)

\* a trajectory that ended exactly at the floor value and is no success
C6_Witness ==
    \E r \in Results : r.final_balance = DepletionFloor /\ ~r.success

\* C7: a finished trajectory holds one YearlyCashFlow per calendar year from
\* the current year on, life_expectancy - current_age + 1 of them, and a
\* finished batch holds N times as many.
C7_FullHorizon ==
    LET horizon == config.life_expectancy - config.current_age + 1
    IN  /\ \A r \in Results :
              /\ Len(r.cash_flows) = horizon
              /\ \A k \in 1..Len(r.cash_flows) :
                     r.cash_flows[k].year = current_year + k - 1
        /\ pc = "done" =>
              SumOver([i \in 1..Len(all_simulation_results) |->
                          Len(all_simulation_results[i].cash_flows)],
                      1..Len(all_simulation_results))
                  = config.simulations * horizon

\* a finished trajectory that was depleted in its first year and went on for
\* at least two more
C7_Witness ==
    \E r \in Results :
        /\ r.year_of_depletion = current_year
        /\ r.cash_flows[1].ending_balance < 0
        /\ Len(r.cash_flows) >= 3

\* what a year carries into the next
Carried(cf) == cf.ending_balance + cf.downsize_proceeds + cf.windfall_amount

\* C8 as stated: the opening balance of every year after the first is the
\* previous year's ending balance plus its downsize proceeds and windfall.
C8_CarriedUnfloored ==
    \A cfs \in RecordedFlows : \A k \in 1..(Len(cfs) - 1) :
        cfs[k + 1].beginning_balance = Carried(cfs[k])

\* C8 amended: the opening balance of every year after the first is the
\* previous year's ending balance plus its downsize proceeds and windfall
\* when that sum is not negative, and the depletion floor when it is; the
\* ending balance of the year itself holds neither amount.
C8_CarriedOrFloored ==
    \A cfs \in RecordedFlows : \A k \in 1..Len(cfs) :
        /\ cfs[k].ending_balance =
               cfs[k].beginning_balance + cfs[k].investment_return.total
               + IncomeTotal(cfs[k].income) - ExpensesTotal(cfs[k].expenses) - cfs[k].tax
        /\ k < Len(cfs) =>
               cfs[k + 1].beginning_balance =
                   IF Carried(cfs[k]) >= 0 THEN Carried(cfs[k]) ELSE DepletionFloor

\* a year with a windfall, followed by a year that opens with it
C8_Witness ==
    \E cfs \in RecordedFlows : \E k \in 1..(Len(cfs) - 1) :
        /\ cfs[k].windfall_amount > 0
        /\ cfs[k + 1].beginning_balance = Carried(cfs[k])
        /\ cfs[k + 1].beginning_balance > cfs[k].ending_balance

\* C9: with a negative horizon the run ends in an error: it simulates no
\* year and returns nothing.
C9_NegativeHorizonFails ==
    config.life_expectancy - config.current_age + 1 < 0 =>
        /\ pc # "done"
        /\ cash_flows = <<>>
        /\ all_simulation_results = <<>>

\* C10: calculate_portfolio_draw returns draw 0 and the estimated tax when
\* the expense is covered by the income after the estimated tax, and
\* otherwise the shortfall plus the tax on it as the draw, and the estimated
\* tax plus the tax on the shortfall as the tax.
C10_TwoStateRule ==
    call.fn = "calculate_portfolio_draw" =>
        LET estimated_tax == (call.gross_income * call.tax_rate) \div 100
            pretax == call.total_expense - (call.gross_income - estimated_tax)
            tax_on_draw == (pretax * call.tax_rate) \div 100
        IN  IF call.total_expense <= call.gross_income - estimated_tax
            THEN call.result.draw = 0 /\ call.result.tax = estimated_tax
            ELSE /\ call.result.draw = pretax + tax_on_draw
                 /\ call.result.tax = estimated_tax + tax_on_draw

\* a call in the draw-required state with income tax and tax on the draw
C10_Witness ==
    /\ call.fn = "calculate_portfolio_draw"
    /\ call.total_expense > call.gross_income
    /\ call.gross_income > 0
    /\ call.tax_rate > 0
    /\ call.result.draw > call.total_expense - call.gross_income
    /\ call.result.tax > (call.gross_income * call.tax_rate) \div 100

\* C11: the account_balances snapshot of a recorded year is left unchanged by
\* every later step: a year's pass appends one entry whose snapshot is the
\* ledger as that year's update left it and changes no entry recorded before,
\* and a finished trajectory's entries are kept as they were when it finished.
C11_SnapshotsKept ==
    [][ /\ \A k \in 1..Len(cash_flows) :
               k <= Len(cash_flows') =>
                   cash_flows'[k].account_balances = cash_flows[k].account_balances
        /\ Len(cash_flows') = Len(cash_flows) + 1 =>
               cash_flows'[Len(cash_flows')].account_balances = balances'
        /\ \A i \in 1..Len(all_simulation_results) :
               all_simulation_results'[i].cash_flows = all_simulation_results[i].cash_flows
        /\ Len(all_simulation_results') = Len(all_simulation_results) + 1 =>
               all_simulation_results'[Len(all_simulation_results')].cash_flows = cash_flows
      ]_vars

\* a finished trajectory whose ledger after the last year differs, in each of
\* the five accounts, from the snapshot of its first year
C11_Witness ==
    \E r \in Results :
        /\ Len(r.cash_flows) >= 2
        /\ LET first == r.cash_flows[1].account_balances
               last == r.cash_flows[Len(r.cash_flows)].account_balances
           IN  /\ first.self_401k # last.self_401k
               /\ first.partner_401k # last.partner_401k
               /\ first.roth_ira # last.roth_ira
               /\ first.brokerage # last.brokerage
               /\ first.cash # last.cash
               /\ last = balances

\* C12: every trajectory starts from the configured initial state, whatever
\* the trajectories before it left: the five starting balances, initial_savings
\* as the rolling balance, the base annual expense, no entry and no depletion
\* year; and no step of the run changes the config.
C12_FreshStart ==
    [][ /\ config' = config
        /\ (pc = "sim_loop" /\ pc' = "year_loop") =>
               /\ balances'.self_401k = config.self_401k_balance
               /\ balances'.partner_401k = config.partner_401k_balance
               /\ balances'.roth_ira = config.roth_ira_balance
               /\ balances'.brokerage = config.brokerage_balance
               /\ balances'.cash = config.cash_savings_balance
               /\ savings' = config.initial_savings
               /\ current_annual_expense' = config.annual_expense
               /\ cash_flows' = <<>>
               /\ year_of_depletion' = None
               /\ year' = 0
      ]_vars

\* the second trajectory of a batch is about to run its first year, the first
\* one having left another ledger, rolling balance and expense, and a
\* depletion year
C12_Witness ==
    /\ pc = "year_loop"
    /\ sim = 1
    /\ year = 0
    /\ Len(all_simulation_results) = 1
    /\ LET r == all_simulation_results[1]
           last == r.cash_flows[Len(r.cash_flows)]
       IN  /\ Len(r.cash_flows) >= 2
           /\ last.account_balances.brokerage # balances.brokerage
           /\ last.account_balances.self_401k # balances.self_401k
           /\ r.final_balance < 0
           /\ last.expenses.basic # current_annual_expense
    /\ savings = config.initial_savings
    /\ balances.brokerage = config.brokerage_balance
    /\ year_of_depletion = None

\* C13: a person's earnings of year index y are base x (1+growth)^y when the
\* person's age that year, current age + y, is below the retirement age, and 0
\* otherwise: 0 in the retirement year and after it, and 0 in every year when
\* the retirement age is not above the current age.
C13_EarningsUntilRetirement ==
    call.fn = "calculate_earnings" =>
        /\ call.result =
               IF call.current_age + call.year < call.retirement_age
               THEN Grow(call.starting_earnings, call.yearly_increment, call.year)
               ELSE 0
        /\ (call.current_age + call.year < call.retirement_age /\ call.year = 0) =>
               call.result = call.starting_earnings
        /\ (call.current_age + call.year < call.retirement_age /\ call.year = 1) =>
               call.result =
                   (call.starting_earnings * (100 + call.yearly_increment)) \div 100
        /\ call.current_age + call.year >= call.retirement_age => call.result = 0
        /\ call.retirement_age <= call.current_age => call.result = 0

\* the retirement year of a person who worked the year before: no earnings
C13_Witness ==
    /\ call.fn = "calculate_earnings"
    /\ call.starting_earnings > 0
    /\ call.year >= 1
    /\ call.current_age < call.retirement_age
    /\ call.current_age + call.year = call.retirement_age
    /\ call.result = 0

\* the bridge cost C14 states for one person
BridgeCost(age, base, start_age, inflation_mean) ==
    IF age < start_age THEN 0
    ELSE IF age <= 64 THEN Grow(base, inflation_mean, age - start_age)
    ELSE 0

\* C14: each person's healthcare bridge cost depends on that person's age,
\* base cost and start age alone: 0 before the start age, base x
\* (1+inflation_mean)^(age - start age) from the start age up to 64, and 0 at
\* 65 and every later age; the total is the sum of the two.
C14_HealthcareBridge ==
    call.fn = "calculate_healthcare_costs" =>
        /\ call.result.self_cost =
               BridgeCost(call.current_age, call.self_healthcare_cost,
                          call.self_healthcare_start_age, call.inflation_mean)
        /\ call.result.partner_cost =
               BridgeCost(call.partner_current_age, call.partner_healthcare_cost,
                          call.partner_healthcare_start_age, call.inflation_mean)
        /\ call.result.total_cost = call.result.self_cost + call.result.partner_cost
        /\ call.current_age >= 65 => call.result.self_cost = 0
        /\ call.partner_current_age >= 65 => call.result.partner_cost = 0
        /\ call.current_age = call.self_healthcare_start_age /\ call.current_age < 65 =>
               call.result.self_cost = call.self_healthcare_cost

\* one person is 64 and pays an escalated cost while the other, covered since
\* 60, has reached 65 and pays nothing
C14_Witness ==
    /\ call.fn = "calculate_healthcare_costs"
    /\ call.current_age = 64
    /\ call.result.self_cost > call.self_healthcare_cost
    /\ call.partner_current_age = 65
    /\ call.partner_healthcare_start_age < 65
    /\ call.partner_healthcare_cost > 0
    /\ call.result.partner_cost = 0
    /\ call.result.total_cost = call.result.self_cost

\* C15: the mortgage expense is the flat payment for the year indices
\* 0 .. mortgage_years_remaining - 1 and 0 for each later year index; it is
\* never a part of the payment.
C15_MortgageTerm ==
    call.fn = "calculate_mortgage" =>
        /\ call.year \in 0..(call.mortgage_years_remaining - 1) =>
               call.result = call.mortgage_payment
        /\ call.year >= call.mortgage_years_remaining => call.result = 0
        /\ call.result \in {0, call.mortgage_payment}

\* the first year after the last payment
C15_Witness ==
    /\ call.fn = "calculate_mortgage"
    /\ call.mortgage_payment > 0
    /\ call.mortgage_years_remaining > 0
    /\ call.year = call.mortgage_years_remaining
    /\ call.result = 0

\* C16: sorting the returned list again by (year_of_depletion, final_balance)
\* yields the same list, the trajectories with equal keys in the same order.
C16_SortIdempotent ==
    pc = "done" => sorted_by_key(sorted_simulation_results) = sorted_simulation_results

\* a returned list of two trajectories with equal keys, the one that ran first
\* ahead of the other
C16_Witness ==
    /\ pc = "done"
    /\ Len(sorted_simulation_results) = 2
    /\ sorted_simulation_results[1].year_of_depletion
           = sorted_simulation_results[2].year_of_depletion
    /\ sorted_simulation_results[1].final_balance
           = sorted_simulation_results[2].final_balance
    /\ sorted_simulation_results[1].final_balance < 0
    /\ sorted_simulation_results[1].simulation_id = 0
    /\ sorted_simulation_results[2].simulation_id = 1

C18_BalancesFlooredAtYearStart ==
    (pc = "year_loop" /\ year > 0 /\ year_loop_continues(config, year, savings)) =>
        /\ balances.self_401k >= 0 \/ balances.self_401k = DepletionFloor
        /\ balances.partner_401k >= 0 \/ balances.partner_401k = DepletionFloor
        /\ balances.roth_ira >= 0 \/ balances.roth_ira = DepletionFloor
        /\ balances.brokerage >= 0 \/ balances.brokerage = DepletionFloor
        /\ balances.cash >= 0 \/ balances.cash = DepletionFloor

\* the accounts in the order calculate_draws visits them
WaterfallOrder == << "brokerage", "self_401k", "partner_401k", "cash", "roth_ira" >>

\* the ledger calculate_draws read in the k-th year of a trajectory: the
\* configured balances in the first year, the previous year's snapshot after it
OpeningLedger(cfs, k) ==
    IF k = 1
    THEN [ self_401k |-> config.self_401k_balance,
           partner_401k |-> config.partner_401k_balance,
           roth_ira |-> config.roth_ira_balance,
           brokerage |-> config.brokerage_balance,
           cash |-> config.cash_savings_balance ]
    ELSE cfs[k - 1].account_balances

\* C19: in every year's call of calculate_draws an account gets a non-zero
\* draw only if each account ahead of it in the order brokerage, self
\* tax-deferred, partner tax-deferred, cash, tax-free was drawn for its whole
\* balance.
C19_WaterfallPriority ==
    \A cfs \in RecordedFlows : \A k \in 1..Len(cfs) :
        \A i \in 1..Len(WaterfallOrder) :
            cfs[k].draws[WaterfallOrder[i]] # 0 =>
                \A j \in 1..(i - 1) :
                    cfs[k].draws[WaterfallOrder[j]] = OpeningLedger(cfs, k)[WaterfallOrder[j]]

\* income - expenses - tax - both contributions of a recorded year
NetSurplus(cf) ==
    IncomeTotal(cf.income) - ExpensesTotal(cf.expenses) - cf.tax
    - cf.contributions[1] - cf.contributions[2]

\* C20: over each year the self and partner tax-deferred balances change by
\* contribution + return - draw, the tax-free and cash balances by return -
\* draw, and the brokerage balance by return - draw plus the net surplus when
\* the surplus is positive and by return - draw alone when it is not.
C20_AccountDeltas ==
    \A cfs \in RecordedFlows : \A k \in 1..Len(cfs) :
        LET before == OpeningLedger(cfs, k)
            after == cfs[k].account_balances
            r == cfs[k].investment_return
            d == cfs[k].draws
        IN  /\ after.self_401k - before.self_401k
                   = cfs[k].contributions[1] + r.self_401k - d.self_401k
            /\ after.partner_401k - before.partner_401k
                   = cfs[k].contributions[2] + r.partner_401k - d.partner_401k
            /\ after.roth_ira - before.roth_ira = r.roth_ira - d.roth_ira
            /\ after.cash - before.cash = r.cash - d.cash
            /\ after.brokerage - before.brokerage =
                   IF NetSurplus(cfs[k]) > 0
                   THEN r.brokerage - d.brokerage + NetSurplus(cfs[k])
                   ELSE r.brokerage - d.brokerage

\* a trajectory with a year of contributions and a positive surplus, all of
\* it added to brokerage, and a later year with a deficit and draws, none of
\* it taken from brokerage beyond the draw
C20_Witness ==
    \E cfs \in RecordedFlows : \E j \in 1..Len(cfs) : \E k \in (j + 1)..Len(cfs) :
        /\ cfs[j].contributions[1] > 0
        /\ cfs[j].contributions[2] > 0
        /\ NetSurplus(cfs[j]) > 0
        /\ cfs[j].investment_return.brokerage # 0
        /\ cfs[j].account_balances.brokerage
               > OpeningLedger(cfs, j).brokerage + cfs[j].investment_return.brokerage
        /\ NetSurplus(cfs[k]) < 0
        /\ cfs[k].draws.brokerage > 0

\* the base living expense the k-th year of a trajectory starts from: the
\* configured one in the first year, the previous year's after it
PreviousBasic(cfs, k) ==
    IF k = 1 THEN config.annual_expense ELSE cfs[k - 1].expenses.basic

\* the inflation rates adjust_expenses may draw in the k-th year
InflationDraws(k) ==
    IF k > 1 THEN DrawsFrom(config.inflation_mean, config.inflation_std) ELSE {0}

\* C21: the expense adjustment recorded for a year is part of that year's
\* recurring living expense: the expense is the previous year's expense plus
\* the adjustment, escalated as every year's expense is.
C21_AdjustmentApplied ==
    \A cfs \in RecordedFlows : \A k \in 1..Len(cfs) :
        \E inflation_rate \in InflationDraws(k) :
            cfs[k].expenses.basic =
                adjust_expenses(PreviousBasic(cfs, k) + cfs[k].expense_adjustment,
                                inflation_rate, config.annual_expense_decrease, k - 1,
                                cfs[k].self_age, config.retirement_age,
                                cfs[k].partner_age, config.partner_retirement_age)

C23_RatesZeroWithoutBalance ==
    \A cfs \in RecordedFlows : \A k \in 1..Len(cfs) :
        /\ cfs[k].beginning_balance <= 0 =>
               convert_to_dict_for_display(cfs[k]).investment_return_pct = 0
        /\ cfs[k].ending_balance <= 0 =>
               convert_to_dict_for_display(cfs[k]).drawdown_pct = 0

\* C24: under the Normal family the equity (bond) return of every year lies
\* between the lowest and the highest historical equity (bond) return; under
\* the Student's-t family it is a value as drawn and under the Empirical
\* family a value of the historical table; and the return recorded for a
\* simulated year is computed from that year's pair.
C24_ClampedOnlyForNormal ==
    pc \in {"year_loop", "sim_loop"} =>
        /\ \A i \in 1..Len(returns.equity) :
               CASE config.simulation_type = "Normal Distribution" ->
                      /\ returns.equity[i] >= SetMin(Range(historical_equity_returns))
                      /\ returns.equity[i] <= SetMax(Range(historical_equity_returns))
                      /\ returns.bond[i] >= SetMin(Range(historical_bond_returns))
                      /\ returns.bond[i] <= SetMax(Range(historical_bond_returns))
                 [] config.simulation_type = "Students-T Distribution" ->
                      /\ returns.equity[i] \in
                             {config.stock_return_mean - 2 * config.stock_return_std,
                              config.stock_return_mean + 2 * config.stock_return_std}
                      /\ returns.bond[i] \in
                             {config.bond_return_mean - 2 * config.bond_return_std,
                              config.bond_return_mean + 2 * config.bond_return_std}
                 [] config.simulation_type = "Empirical Distribution" ->
                      /\ returns.equity[i] \in Range(historical_equity_returns)
                      /\ returns.bond[i] \in Range(historical_bond_returns)
                 [] OTHER -> TRUE
        /\ \A k \in 1..Len(cash_flows) :
               cash_flows[k].investment_return.total =
                   (cash_flows[k].beginning_balance
                      * (returns.equity[k] * config.stock_percentage
                         + returns.bond[k] * config.bond_percentage)) \div 10000

\* a Normal trajectory with a simulated year whose equity draw, below the
\* lowest historical return, was replaced by that lowest return
C24_Witness ==
    /\ config.simulation_type = "Normal Distribution"
    /\ config.stock_return_mean - 2 * config.stock_return_std
           < SetMin(Range(historical_equity_returns))
    /\ \E k \in 1..Len(cash_flows) :
           /\ returns.equity[k] = SetMin(Range(historical_equity_returns))
           /\ cash_flows[k].investment_return.total < 0

\* C25: for each of the three supported families and every horizon of 0 years
\* or more, preselect_investment_returns completes and the trajectory gets an
\* equity and a bond sequence with one return per year of the horizon.
C25_PreselectCompletes ==
    (/\ config.simulation_type \in
            {"Normal Distribution", "Students-T Distribution", "Empirical Distribution"}
     /\ config.life_expectancy - config.current_age + 1 >= 0) =>
        /\ pc # "error"
        /\ pc = "year_loop" =>
               /\ Len(returns.equity) = config.life_expectancy - config.current_age + 1
               /\ Len(returns.bond) = config.life_expectancy - config.current_age + 1

\* C26: in a year in which the five draws together fall short of the
\* requested portfolio draw, the ending balance is negative.
C26_ShortfallShowsDepletion ==
    \A cfs \in RecordedFlows : \A k \in 1..Len(cfs) :
        cfs[k].draws.total < cfs[k].portfolio_draw => cfs[k].ending_balance < 0

\* C27: when initial_savings is the sum of the five starting balances, the
\* five balances of every recorded snapshot add up to the rolling balance
\* carried into the next year.
C27_BooksInStep ==
    config.initial_savings =
        config.self_401k_balance + config.partner_401k_balance + config.roth_ira_balance
        + config.brokerage_balance + config.cash_savings_balance
    => \A cfs \in RecordedFlows : \A k \in 1..Len(cfs) :
           cfs[k].account_balances.self_401k + cfs[k].account_balances.partner_401k
           + cfs[k].account_balances.roth_ira + cfs[k].account_balances.brokerage
           + cfs[k].account_balances.cash
               = Carried(cfs[k])

\* C28: in every recorded year investment_return.total is the sum of the five
\* per-account returns of the same YearlyReturns.
C28_TotalIsSumOfReturns ==
    \A cfs \in RecordedFlows : \A k \in 1..Len(cfs) :
        cfs[k].investment_return.total =
            cfs[k].investment_return.self_401k + cfs[k].investment_return.partner_401k
            + cfs[k].investment_return.roth_ira + cfs[k].investment_return.brokerage
            + cfs[k].investment_return.cash

\* C29: in every recorded year each of the five per-account draws is 0 or
\* more.
C29_DrawsNonNegative ==
    \A cfs \in RecordedFlows : \A k \in 1..Len(cfs) :
        /\ cfs[k].draws.brokerage >= 0
        /\ cfs[k].draws.self_401k >= 0
        /\ cfs[k].draws.partner_401k >= 0
        /\ cfs[k].draws.cash >= 0
        /\ cfs[k].draws.roth_ira >= 0

\* C30: in the returned list every trajectory that failed comes before every
\* trajectory that succeeded.
C30_FailuresFirst ==
    pc = "done" =>
        \A i \in 1..Len(sorted_simulation_results) :
            \A j \in (i + 1)..Len(sorted_simulation_results) :
                ~(sorted_simulation_results[i].success
                  /\ ~sorted_simulation_results[j].success)

=============================================================================
